---- MODULE Spec2Model ----
(***************************************************************************)
(* Model of makeover (src/main.py): the variable expander, the staleness   *)
(* test and the recursive build executor of BuildSystem, driven by the     *)
(* goal loop of BuildSystem.run.                                           *)
(*                                                                         *)
(* Text is a sequence of one-character strings.  A file name is a          *)
(* one-character string.  The filesystem maps a name to its modification   *)
(* time, 0 standing for "no such file".                                    *)
(*                                                                         *)
(* The specifications share the state: Spec and SpecGoals run the         *)
(* executor on build models with one-character names (SpecFair is Spec     *)
(* with weak fairness of its steps), SpecExpand applies expand_vars to a   *)
(* text, SpecParse runs parse over the lines of a buildfile, where names   *)
(* are text.                                                               *)
(***************************************************************************)
EXTENDS Integers, Sequences, FiniteSets, TLC

VARIABLES variables, targets, first_target, argv, fs, now, queue, stack,
          status, err, log, start,
          input, expanded,
          buildfile, line_num, current_target, current_group, pending_doc

vars == <<variables, targets, first_target, argv, fs, now, queue, stack,
          status, err, log, start, input, expanded,
          buildfile, line_num, current_target, current_group, pending_doc>>

\* the argument and the result of an expansion on its own
expansion == <<input, expanded>>

\* the buildfile and the locals of parse
parsing == <<buildfile, line_num, current_target, current_group, pending_doc>>

\* what the executor neither reads nor writes
aside == <<expansion, parsing>>

model == <<variables, targets, first_target>>

----------------------------------------------------------------------------
(* Bounds *)

\* initial modification times range over 1..MaxTime (0: the file is absent)
MaxTime == 2
\* at most MaxGoals target names on the command line
MaxGoals == 2
\* needs_rebuild is tried on every dependency list of at most MaxDeps names
MaxDeps == 2
\* expand_vars is tried on every text of at most MaxText characters
MaxText == 4
\* parse is tried on every build file of at most MaxLines lines
MaxLines == 4

----------------------------------------------------------------------------
(* Text *)

NoName == "-"

\* None, where the value is otherwise a text
None == <<"None">>

General == <<"G", "e", "n", "e", "r", "a", "l">>

\* str.startswith
StartsWith(s, pat) == Len(s) >= Len(pat) /\ SubSeq(s, 1, Len(pat)) = pat

touch_ == <<"t", "o", "u", "c", "h", " ">>
rm_    == <<"r", "m", " ">>
true_  == <<"t", "r", "u", "e">>
false_ == <<"f", "a", "l", "s", "e">>

\* str.replace(old, new): every non-overlapping occurrence, left to right
RECURSIVE Replace(_, _, _)
Replace(s, old, new) ==
    IF Len(s) < Len(old) THEN s
    ELSE IF SubSeq(s, 1, Len(old)) = old
         THEN new \o Replace(SubSeq(s, Len(old) + 1, Len(s)), old, new)
         ELSE <<s[1]>> \o Replace(Tail(s), old, new)

\* the two patterns of one variable
DollarName(key) == <<"$">> \o key
DollarBrace(key) == <<"$", "{">> \o key \o <<"}">>

\* one iteration of the loop of expand_vars
ExpandOne(text, kv) ==
    Replace(Replace(text, DollarName(kv.key), kv.val), DollarBrace(kv.key), kv.val)

RECURSIVE ExpandFrom(_, _, _)
ExpandFrom(text, table, k) ==
    IF k > Len(table) THEN text
    ELSE ExpandFrom(ExpandOne(text, table[k]), table, k + 1)

\* expand_vars: the variables in the order of the table
ExpandVars(text) == ExpandFrom(text, variables, 1)

----------------------------------------------------------------------------
(* Filesystem and shell *)

\* the file as it was when the invocation began
ExistsAtStart(f) == f \in DOMAIN start /\ start[f] > 0

\* os.path.exists
Exists(f) == f \in DOMAIN fs /\ fs[f] > 0

GetMTime(f) == fs[f]

\* what the shell does with a command text: its exit status and its effect.
\* The build models below use "touch f", "rm f", "true" and "false" on their
\* own names only; any other text is a command the shell does not find.
Shell(text) ==
    IF Len(text) = Len(touch_) + 1 /\ SubSeq(text, 1, Len(touch_)) = touch_
         /\ text[Len(text)] \in DOMAIN fs
    THEN [status |-> 0, op |-> "touch", file |-> text[Len(text)]]
    ELSE IF Len(text) = Len(rm_) + 1 /\ SubSeq(text, 1, Len(rm_)) = rm_
              /\ text[Len(text)] \in DOMAIN fs
    THEN IF Exists(text[Len(text)])
         THEN [status |-> 0, op |-> "rm", file |-> text[Len(text)]]
         ELSE [status |-> 1, op |-> "none", file |-> NoName]
    ELSE IF text = true_ THEN [status |-> 0, op |-> "none", file |-> NoName]
    ELSE IF text = false_ THEN [status |-> 1, op |-> "none", file |-> NoName]
    ELSE [status |-> 127, op |-> "none", file |-> NoName]

\* the filesystem after the command; a touched file gets the time t
FsAfter(sh, t) ==
    IF sh.op = "touch" THEN [fs EXCEPT ![sh.file] = t]
    ELSE IF sh.op = "rm" THEN [fs EXCEPT ![sh.file] = 0]
    ELSE fs

----------------------------------------------------------------------------
(* needs_rebuild *)

\* an mtime comparison that also fires on equal times
RECURSIVE NeedsLoopNotOlder(_, _, _)
NeedsLoopNotOlder(target, deps, k) ==
    IF k > Len(deps) THEN FALSE
    ELSE LET dep == deps[k] IN
         IF ~Exists(dep) /\ dep \notin DOMAIN targets THEN TRUE
         ELSE IF Exists(dep) /\ GetMTime(dep) >= GetMTime(target) THEN TRUE
         ELSE NeedsLoopNotOlder(target, deps, k + 1)

\* a missing dependency that is passed over, known target or not
RECURSIVE NeedsLoopSkipMissing(_, _, _)
NeedsLoopSkipMissing(target, deps, k) ==
    IF k > Len(deps) THEN FALSE
    ELSE LET dep == deps[k] IN
         IF Exists(dep) /\ GetMTime(dep) > GetMTime(target) THEN TRUE
         ELSE NeedsLoopSkipMissing(target, deps, k + 1)

\* a missing dependency that forces the rebuild also when it is a known target
RECURSIVE NeedsLoopAnyMissing(_, _, _)
NeedsLoopAnyMissing(target, deps, k) ==
    IF k > Len(deps) THEN FALSE
    ELSE LET dep == deps[k] IN
         IF ~Exists(dep) THEN TRUE
         ELSE IF Exists(dep) /\ GetMTime(dep) > GetMTime(target) THEN TRUE
         ELSE NeedsLoopAnyMissing(target, deps, k + 1)

\* lines 121-146: the loop over the dependencies
RECURSIVE NeedsLoop(_, _, _)
NeedsLoop(target, deps, k) ==
    IF k > Len(deps) THEN FALSE
    ELSE LET dep == deps[k] IN
         IF ~Exists(dep) /\ dep \notin DOMAIN targets THEN TRUE
         ELSE IF Exists(dep) /\ GetMTime(dep) > GetMTime(target) THEN TRUE
         ELSE NeedsLoop(target, deps, k + 1)

needs_rebuild(target, deps) ==
    IF ~Exists(target) THEN TRUE ELSE NeedsLoop(target, deps, 1)

----------------------------------------------------------------------------
(* Build models: what parse leaves in variables, targets and first_target *)

Touch(c) == touch_ \o <<c>>
Rm(c) == rm_ \o <<c>>

\* an entry of the target table; build reads neither doc nor group
Target(deps, commands) ==
    [deps |-> deps, commands |-> commands, doc |-> <<>>, group |-> General]

NoVariables == <<>>
TouchVariable == <<[key |-> <<"T">>, val |-> <<"t", "o", "u", "c", "h">>]>>

\* a: b / b: a
Cycle ==
    [variables |-> NoVariables, first |-> "a",
     targets |-> [n \in {"a", "b"} |->
        IF n = "a" THEN Target(<<"b">>, <<Touch("a")>>)
                   ELSE Target(<<"a">>, <<Touch("b")>>)]]

\* a: c b / b: a / c:          (an acyclic dependency listed before the cycle)
CycleLate ==
    [variables |-> NoVariables, first |-> "a",
     targets |-> [n \in {"a", "b", "c"} |->
        IF n = "a" THEN Target(<<"c", "b">>, <<Touch("a")>>)
        ELSE IF n = "b" THEN Target(<<"a">>, <<Touch("b")>>)
        ELSE Target(<<>>, <<Touch("c")>>)]]

\* a: b c / b: d / c: d / d:   (d never creates its file)
Diamond ==
    [variables |-> NoVariables, first |-> "a",
     targets |-> [n \in {"a", "b", "c", "d"} |->
        IF n = "a" THEN Target(<<"b", "c">>, <<Touch("a"), true_>>)
        ELSE IF n = "b" THEN Target(<<"d">>, <<Touch("b")>>)
        ELSE IF n = "c" THEN Target(<<"d">>, <<Touch("c")>>)
        ELSE Target(<<>>, <<true_>>)]]

\* T=touch / a: d d / d:
Duplicate ==
    [variables |-> TouchVariable, first |-> "a",
     targets |-> [n \in {"a", "d"} |->
        IF n = "a" THEN Target(<<"d", "d">>, <<<<"$", "{", "T", "}", " ", "a">>>>)
                   ELSE Target(<<>>, <<true_>>)]]

\* T=touch / a: b with b a plain file
OutIn ==
    [variables |-> TouchVariable, first |-> "a",
     targets |-> [n \in {"a"} |->
        Target(<<"b">>, <<<<"$", "T", " ", "a">>, true_>>)]]

\* a: b c / c:   where c removes the plain file b
Vanish ==
    [variables |-> NoVariables, first |-> "a",
     targets |-> [n \in {"a", "c"} |->
        IF n = "a" THEN Target(<<"b", "c">>, <<Touch("a")>>)
                   ELSE Target(<<>>, <<Rm("b")>>)]]

\* a: b c / b: / c:   where a command of b fails; $U is not defined
Failing ==
    [variables |-> TouchVariable, first |-> "a",
     targets |-> [n \in {"a", "b", "c"} |->
        IF n = "a" THEN Target(<<"b", "c">>, <<Touch("a")>>)
        ELSE IF n = "b" THEN Target(<<>>, <<<<"$", "T", " ", "b">>, <<"$", "{", "T", "}">>,
                                           Touch("b")>>)
        ELSE Target(<<>>, <<<<"$", "U", " ", "c">>>>)]]

\* a buildfile without targets
Empty ==
    [variables |-> NoVariables, first |-> NoName,
     targets |-> [n \in {} |-> Target(<<>>, <<>>)]]

Programs == {Cycle, CycleLate, Diamond, Duplicate, OutIn, Vanish, Failing, Empty}

\* the build models run with several goals
GoalPrograms == {Cycle, Duplicate, OutIn, Failing, Empty}

Range(s) == {s[k] : k \in 1..Len(s)}

\* the names a build model mentions: its targets and their dependencies
NamesOf(p) ==
    DOMAIN p.targets \cup UNION {Range(p.targets[n].deps) : n \in DOMAIN p.targets}

SeqsUpTo(S, n) == UNION {[1..k -> S] : k \in 0..n}

----------------------------------------------------------------------------
(* State *)

NoError == [kind |-> "None", name |-> NoName, text |-> <<>>]

Frame(name, visited) == [name |-> name, visited |-> visited, pc |-> "enter", i |-> 0]

\* an entry of the log; depth is the depth of the call it belongs to
Event(ev, name, idx, text, st, depth) ==
    [ev |-> ev, name |-> name, idx |-> idx, text |-> text, status |-> st,
     depth |-> depth]

\* run is about to start on the parsed build model p with the command line
\* args, the files having any age or being absent
Started(p, args) ==
    /\ variables = p.variables
    /\ targets = p.targets
    /\ first_target = p.first
    /\ argv = args
    /\ fs \in [NamesOf(p) -> 0..MaxTime]
    /\ now = MaxTime
    /\ queue = <<>>
    /\ stack = <<>>
    /\ status = "init"
    /\ err = NoError
    /\ log = <<>>
    /\ start = fs
    /\ input = <<>> /\ expanded = <<>>
    /\ buildfile = <<>> /\ line_num = 0
    /\ current_target = None /\ current_group = General /\ pending_doc = <<>>

\* one top-level invocation: no goal (the first target is built) or one goal
Init ==
    \E p \in Programs :
        \E args \in {<<>>} \cup {<<g>> : g \in NamesOf(p)} : Started(p, args)

\* several goals on the command line
InitGoals ==
    \E p \in GoalPrograms :
        \E args \in SeqsUpTo(NamesOf(p), MaxGoals) : Started(p, args)

Top == stack[Len(stack)]

AfterCallShared(callerVisited, calleeVisited) == calleeVisited

\* visited.copy() (line 167): what the callee does to its set does not reach the caller
AfterCall(callerVisited, calleeVisited) == callerVisited

AfterErrorGoOn == "loop"

\* line 230: sys.exit(1) in the handler of the goal loop
AfterError == "exit1"

\* the stack after the top call has returned normally
Popped(calleeVisited) ==
    IF Len(stack) = 1 THEN <<>>
    ELSE [SubSeq(stack, 1, Len(stack) - 1) EXCEPT
            ![Len(stack) - 1].visited = AfterCall(@, calleeVisited)]

\* a BuildError leaves every active call and reaches run, which exits with 1
Raise(kind, name, text) ==
    /\ err' = [kind |-> kind, name |-> name, text |-> text]
    /\ stack' = <<>>
    /\ status' = AfterError
    /\ log' = Append(log, Event("raise", name, 0, text, 1, Len(stack)))

----------------------------------------------------------------------------
(* BuildSystem.run, after parsing *)

\* lines 216-223: the goals of the command line, else the first target
ChooseGoals ==
    /\ status = "init"
    /\ IF argv # <<>> THEN queue' = argv /\ status' = "loop"
       ELSE IF first_target # NoName
            THEN queue' = <<first_target>> /\ status' = "loop"
            ELSE queue' = <<>> /\ status' = "exit0"
    /\ UNCHANGED <<aside, model, argv, fs, now, stack, err, log, start>>

\* lines 225-227: self.build(t) with visited = None, that is the empty set
StartGoal ==
    /\ status = "loop" /\ stack = <<>> /\ queue # <<>>
    /\ stack' = <<Frame(Head(queue), {})>>
    /\ queue' = Tail(queue)
    /\ log' = Append(Append(log, Event("goal", Head(queue), 0, <<>>, 0, 0)),
                     Event("enter", Head(queue), 0, <<>>, 0, 1))
    /\ start' = fs
    /\ UNCHANGED <<aside, model, argv, fs, now, status, err>>

\* every goal was built
Finish ==
    /\ status = "loop" /\ stack = <<>> /\ queue = <<>>
    /\ status' = "exit0"
    /\ UNCHANGED <<aside, model, argv, fs, now, queue, stack, err, log, start>>

----------------------------------------------------------------------------
(* BuildSystem.build *)

Building == status = "loop" /\ stack # <<>>

OnRevisitReturn == "return"

\* line 153: reaching a name of the active path again is an error
OnRevisit == "raise"

\* lines 152-153
RaiseCircular ==
    /\ Building /\ Top.pc = "enter"
    /\ Top.name \in Top.visited
    /\ IF OnRevisit = "raise"
       THEN Raise("CircularDependency", Top.name, <<>>)
       ELSE /\ stack' = Popped(Top.visited)
            /\ log' = Append(log, Event("return", Top.name, 0, <<>>, 0, Len(stack)))
            /\ UNCHANGED <<status, err>>
    /\ UNCHANGED <<aside, model, argv, fs, now, queue, start>>

FileFoundAlways(name) == TRUE

\* line 158: a name without a rule must be a file that exists
FileFound(name) == Exists(name)

\* lines 154-159
RaiseNoRule ==
    /\ Building /\ Top.pc = "enter"
    /\ Top.name \notin Top.visited
    /\ Top.name \notin DOMAIN targets
    /\ ~FileFound(Top.name)
    /\ Raise("NoRuleToMake", Top.name, <<>>)
    /\ UNCHANGED <<aside, model, argv, fs, now, queue, start>>

\* lines 154-160
PlainFile ==
    /\ Building /\ Top.pc = "enter"
    /\ Top.name \notin Top.visited
    /\ Top.name \notin DOMAIN targets
    /\ FileFound(Top.name)
    /\ log' = Append(log, Event("return", Top.name, 0, <<>>, 0, Len(stack)))
    /\ stack' = Popped(Top.visited \cup {Top.name})
    /\ UNCHANGED <<aside, model, argv, fs, now, queue, status, err, start>>

\* lines 154-163
\* a call that does not record its own name
VisitedForget(visited, target_name) == visited

\* line 154: visited.add(target_name)
VisitedAdd(visited, target_name) == visited \cup {target_name}

EnterTarget ==
    /\ Building /\ Top.pc = "enter"
    /\ Top.name \notin Top.visited
    /\ Top.name \in DOMAIN targets
    /\ stack' = [stack EXCEPT ![Len(stack)].visited = VisitedAdd(@, Top.name),
                              ![Len(stack)].pc = "deps",
                              ![Len(stack)].i = 1]
    /\ UNCHANGED <<aside, model, argv, fs, now, queue, status, err, log, start>>

\* lines 166-167
CallDep ==
    /\ Building /\ Top.pc = "deps"
    /\ Top.i <= Len(targets[Top.name].deps)
    /\ stack' = Append([stack EXCEPT ![Len(stack)].i = @ + 1],
                       Frame(targets[Top.name].deps[Top.i], Top.visited))
    /\ log' = Append(log, Event("enter", targets[Top.name].deps[Top.i], 0, <<>>, 0,
                                  Len(stack) + 1))
    /\ UNCHANGED <<aside, model, argv, fs, now, queue, status, err, start>>

DepsDoneEarly(i, deps) == i >= Len(deps)

\* lines 166-173: the loop over the dependencies is over when line 173 runs
DepsDone(i, deps) == i > Len(deps)

\* lines 173-175 and 184-185
UpToDate ==
    /\ Building /\ Top.pc = "deps"
    /\ DepsDone(Top.i, targets[Top.name].deps)
    /\ ~needs_rebuild(Top.name, targets[Top.name].deps)
    /\ log' = Append(Append(log, Event("check", Top.name, 0, <<>>, 0, Len(stack))),
                     Event("return", Top.name, 0, <<>>, 0, Len(stack)))
    /\ stack' = Popped(Top.visited)
    /\ UNCHANGED <<aside, model, argv, fs, now, queue, status, err, start>>

\* lines 173-176
Stale ==
    /\ Building /\ Top.pc = "deps"
    /\ DepsDone(Top.i, targets[Top.name].deps)
    /\ needs_rebuild(Top.name, targets[Top.name].deps)
    /\ log' = Append(log, Event("check", Top.name, 0, <<>>, 1, Len(stack)))
    /\ stack' = [stack EXCEPT ![Len(stack)].pc = "cmds", ![Len(stack)].i = 1]
    /\ UNCHANGED <<aside, model, argv, fs, now, queue, status, err, start>>

NextCommandStuck(i) == i

FailedNever(st) == FALSE

\* lines 181-182: check=True raises CalledProcessError on a non-zero exit status
Failed(st) == st # 0

\* the expansion written back to the entry of the command
CommandsExpandedInPlace(commands, i, expanded_cmd) ==
    [commands EXCEPT ![i] = expanded_cmd]

\* lines 177-178: the loop binds the command and its expansion to locals of
\* its own; the command sequence of the target is what it was
CommandsAfterExpand(commands, i, expanded_cmd) == commands

FailedTextRaw(cmd, expanded_cmd) == cmd

\* line 183: the message names the expanded command
FailedText(cmd, expanded_cmd) == expanded_cmd

\* line 177: the loop goes on with the next command
NextCommand(i) == i + 1

\* lines 177-181, the command exits with status 0
CommandOk ==
    /\ Building /\ Top.pc = "cmds"
    /\ Top.i <= Len(targets[Top.name].commands)
    /\ LET expanded_cmd == ExpandVars(targets[Top.name].commands[Top.i])
           sh == Shell(expanded_cmd)
       IN /\ ~Failed(sh.status)
          /\ \E t \in {now, now + 1} :
                /\ sh.op # "touch" => t = now
                /\ fs' = FsAfter(sh, t)
                /\ now' = t
          /\ log' = Append(log, Event("cmd", Top.name, Top.i, expanded_cmd, sh.status,
                                  Len(stack)))
          /\ targets' = [targets EXCEPT ![Top.name].commands =
                                            CommandsAfterExpand(@, Top.i, expanded_cmd)]
    /\ stack' = [stack EXCEPT ![Len(stack)].i = NextCommand(@)]
    /\ UNCHANGED <<aside, variables, first_target, argv, queue, status, err, start>>

\* lines 177-183, the command exits with another status
CommandFailed ==
    /\ Building /\ Top.pc = "cmds"
    /\ Top.i <= Len(targets[Top.name].commands)
    /\ LET expanded_cmd == ExpandVars(targets[Top.name].commands[Top.i])
           sh == Shell(expanded_cmd)
       IN /\ Failed(sh.status)
          /\ err' = [kind |-> "CommandFailed", name |-> NoName,
                     text |-> FailedText(targets[Top.name].commands[Top.i], expanded_cmd)]
          /\ log' = Append(log, Event("cmd", Top.name, Top.i, expanded_cmd, sh.status,
                                  Len(stack)))
          /\ targets' = [targets EXCEPT ![Top.name].commands =
                                            CommandsAfterExpand(@, Top.i, expanded_cmd)]
    /\ stack' = <<>>
    /\ status' = AfterError
    /\ UNCHANGED <<aside, variables, first_target, argv, fs, now, queue, start>>

\* the loop of line 177 is over: build returns
Return ==
    /\ Building /\ Top.pc = "cmds"
    /\ Top.i > Len(targets[Top.name].commands)
    /\ log' = Append(log, Event("return", Top.name, 0, <<>>, 0, Len(stack)))
    /\ stack' = Popped(Top.visited)
    /\ UNCHANGED <<aside, model, argv, fs, now, queue, status, err, start>>

Next ==
    \/ ChooseGoals
    \/ StartGoal
    \/ Finish
    \/ RaiseCircular
    \/ RaiseNoRule
    \/ PlainFile
    \/ EnterTarget
    \/ CallDep
    \/ UpToDate
    \/ Stale
    \/ CommandOk
    \/ CommandFailed
    \/ Return

Spec == Init /\ [][Next]_vars

SpecGoals == InitGoals /\ [][Next]_vars

\* the interpreter goes on as long as it has a step to take, and every
\* command that is run comes back
SpecFair == Spec /\ WF_vars(Next)

----------------------------------------------------------------------------
(* expand_vars on its own *)

ExpandChars == {"$", "{", "}", "A", "B"}

ExpandKeys == {<<"A">>, <<"B">>, <<"A", "B">>}
ExpandValues == {<<"x">>, <<"$", "B">>}

\* the variable tables of at most two variables, in either order
ExpandTables ==
    {<<>>}
    \cup {<<[key |-> k, val |-> v]>> : k \in ExpandKeys, v \in ExpandValues}
    \cup {<<[key |-> k[1], val |-> v[1]], [key |-> k[2], val |-> v[2]]>> :
            k \in {kk \in ExpandKeys \X ExpandKeys : kk[1] # kk[2]},
            v \in ExpandValues \X ExpandValues}

InitExpand ==
    /\ variables \in ExpandTables
    /\ input \in SeqsUpTo(ExpandChars, MaxText)
    /\ expanded = <<>>
    /\ status = "expand"
    /\ targets = Empty.targets /\ first_target = NoName
    /\ argv = <<>> /\ fs = <<>> /\ now = 0 /\ queue = <<>> /\ stack = <<>>
    /\ err = NoError /\ log = <<>> /\ start = <<>>
    /\ buildfile = <<>> /\ line_num = 0
    /\ current_target = None /\ current_group = General /\ pending_doc = <<>>

\* expand_vars(input)
Expand ==
    /\ status = "expand"
    /\ expanded' = ExpandVars(input)
    /\ status' = "expanded"
    /\ UNCHANGED <<model, argv, fs, now, queue, stack, err, log, start, input, parsing>>

SpecExpand == InitExpand /\ [][Expand]_vars

----------------------------------------------------------------------------
(* parse: the text operations *)

White == {" ", "\t"}

RECURSIVE LStrip(_)
LStrip(s) == IF s # <<>> /\ s[1] \in White THEN LStrip(Tail(s)) ELSE s

RECURSIVE RStrip(_)
RStrip(s) ==
    IF s # <<>> /\ s[Len(s)] \in White THEN RStrip(SubSeq(s, 1, Len(s) - 1)) ELSE s

\* str.strip
Strip(s) == RStrip(LStrip(s))

Uppers == <<"A", "B", "C", "D", "E", "F", "G", "H", "I", "J", "K", "L", "M",
            "N", "O", "P", "Q", "R", "S", "T", "U", "V", "W", "X", "Y", "Z">>
Lowers == <<"a", "b", "c", "d", "e", "f", "g", "h", "i", "j", "k", "l", "m",
            "n", "o", "p", "q", "r", "s", "t", "u", "v", "w", "x", "y", "z">>

\* str.lower
Lower(s) ==
    [k \in 1..Len(s) |->
        IF \E j \in 1..26 : Uppers[j] = s[k]
        THEN Lowers[CHOOSE j \in 1..26 : Uppers[j] = s[k]]
        ELSE s[k]]

\* c in s
Has(s, c) == \E k \in 1..Len(s) : s[k] = c

\* s.split(c, 1), for a text s that has c
SplitOnce(s, c) ==
    LET i == CHOOSE k \in 1..Len(s) : s[k] = c /\ \A j \in 1..(k - 1) : s[j] # c
    IN <<SubSeq(s, 1, i - 1), SubSeq(s, i + 1, Len(s))>>

\* the length of the word that s begins with
RECURSIVE WordLen(_)
WordLen(s) == IF s # <<>> /\ s[1] \notin White THEN 1 + WordLen(Tail(s)) ELSE 0

\* str.split(): the words between white space
RECURSIVE Words(_)
Words(s) ==
    LET t == LStrip(s)
    IN IF t = <<>> THEN <<>>
       ELSE <<SubSeq(t, 1, WordLen(t))>> \o Words(SubSeq(t, WordLen(t) + 1, Len(t)))

\* " ".join(d)
RECURSIVE Join(_)
Join(d) ==
    IF d = <<>> THEN <<>>
    ELSE IF Len(d) = 1 THEN d[1]
    ELSE d[1] \o <<" ">> \o Join(Tail(d))

\* not x, for x a text or None
Falsy(x) == x = None \/ x = <<>>

----------------------------------------------------------------------------
(* parse: the tests on a line, in the order of the loop body *)

GroupPrefix == <<"[", "g", "r", "o", "u", "p", ":">>

IsGroupHeader(line) ==
    LET stripped == Strip(line)
    IN StartsWith(Lower(stripped), GroupPrefix) /\ stripped[Len(stripped)] = "]"

IsBlank(line) == Strip(line) = <<>>

IsComment(line) == StartsWith(Strip(line), <<"#">>)

IsIndented(line) == StartsWith(line, <<" ">>) \/ StartsWith(line, <<"\t">>)

IsAssignmentAnyColon(line) == Has(Strip(line), "=")
IsAssignment(line) == Has(Strip(line), "=") /\ ~Has(Strip(line), ":")

IsTargetDef(line) == Has(Strip(line), ":")

\* the branch of the loop body that a line takes
Branch(line) ==
    IF IsGroupHeader(line) THEN "group"
    ELSE IF IsBlank(line) THEN "blank"
    ELSE IF IsComment(line) THEN "comment"
    ELSE IF IsIndented(line) THEN "command"
    ELSE IF IsAssignment(line) THEN "variable"
    ELSE IF IsTargetDef(line) THEN "target"
    ELSE "syntax"

\* the name and the dependencies of a target definition line
TargetName(line) == Strip(SplitOnce(Strip(line), ":")[1])
Dependencies(line) == Words(SplitOnce(Strip(line), ":")[2])

\* self.variables[key] = val on the table kept in insertion order
SetVariable(table, key, val) ==
    IF \E k \in 1..Len(table) : table[k].key = key
    THEN [k \in 1..Len(table) |->
            IF table[k].key = key THEN [key |-> key, val |-> val] ELSE table[k]]
    ELSE Append(table, [key |-> key, val |-> val])

SetTargetKeepCommands(table, name, entry) ==
    [n \in DOMAIN table \cup {name} |->
        IF n # name THEN table[n]
        ELSE IF name \in DOMAIN table
        THEN [entry EXCEPT !.commands = table[name].commands]
        ELSE entry]
\* self.targets[name] = entry
SetTarget(table, name, entry) ==
    [n \in DOMAIN table \cup {name} |-> IF n = name THEN entry ELSE table[n]]

----------------------------------------------------------------------------
(* parse: the lines of the build files *)

Lines ==
    { <<"[", "G", "r", "o", "u", "p", ":", " ", "g", "]">>,
      <<" ">>,
      <<"#", "d", ":">>,
      <<"\t", "#", " ", "e">>,
      <<"\t", "c">>,
      <<" ", "k", " ">>,
      <<"v", " ", "=", "x">>,
      <<"a", ":", " ", "b", " ", " ", "c">>,
      <<"a", " ", ":">>,
      <<":", " ", "b">>,
      <<"b", "=", "a", ":">>,
      <<"z">> }

\* the branch each of these lines takes, worked out once
BranchOf == [line \in Lines |-> Branch(line)]

\* what the parser did with a line: the branch taken and the target concerned
Parsed(branch, name) == [ev |-> branch, name |-> name, entry |-> <<>>]

\* the same for a target definition, with the entry it wrote to the table
ParsedTarget(name, entry) == [ev |-> "target", name |-> name, entry |-> entry]

InitParse ==
    /\ variables = <<>>
    /\ targets = <<>>
    /\ first_target = None
    /\ buildfile = <<>> /\ line_num = 0
    /\ current_target = None /\ current_group = General /\ pending_doc = <<>>
    /\ status = "parse" /\ err = NoError /\ log = <<>>
    /\ argv = <<>> /\ fs = <<>> /\ now = 0 /\ queue = <<>> /\ stack = <<>>
    /\ start = <<>> /\ input = <<>> /\ expanded = <<>>

\* the loop reads the line as line number line_num + 1
Reads(line, branch) ==
    /\ status = "parse"
    /\ Len(buildfile) < MaxLines
    /\ BranchOf[line] = branch
    /\ buildfile' = Append(buildfile, line)
    /\ line_num' = line_num + 1

\* raise BuildError(f"Line {line_num}: ...")
ParseError(kind) ==
    /\ err' = [kind |-> kind, line |-> line_num + 1]
    /\ status' = "raised"

idle == <<argv, fs, now, queue, stack, start, expansion>>

GroupHeader ==
    \E line \in Lines :
        /\ Reads(line, "group")
        /\ current_group' = Strip(SubSeq(Strip(line), 8, Len(Strip(line)) - 1))
        /\ current_target' = None
        /\ pending_doc' = <<>>
        /\ log' = Append(log, Parsed("group", None))
        /\ UNCHANGED <<model, status, err, idle>>

BlankLine ==
    \E line \in Lines :
        /\ Reads(line, "blank")
        /\ pending_doc' = IF ~Falsy(current_target) THEN pending_doc ELSE <<>>
        /\ log' = Append(log, Parsed("blank", None))
        /\ UNCHANGED <<model, status, err, current_target, current_group, idle>>

Comment ==
    \E line \in Lines :
        /\ Reads(line, "comment")
        /\ pending_doc' = IF Falsy(current_target)
                          THEN Append(pending_doc, Strip(Tail(Strip(line))))
                          ELSE pending_doc
        /\ log' = Append(log, Parsed("comment", None))
        /\ UNCHANGED <<model, status, err, current_target, current_group, idle>>

OrphanCommand ==
    \E line \in Lines :
        /\ Reads(line, "command")
        /\ Falsy(current_target)
        /\ ParseError("OrphanCommand")
        /\ log' = Append(log, Parsed("raise", None))
        /\ UNCHANGED <<model, current_target, current_group, pending_doc, idle>>

Command ==
    \E line \in Lines :
        /\ Reads(line, "command")
        /\ ~Falsy(current_target)
        /\ targets' = [targets EXCEPT ![current_target].commands =
                                          Append(@, Strip(line))]
        /\ pending_doc' = <<>>
        /\ log' = Append(log, Parsed("command", current_target))
        /\ UNCHANGED <<variables, first_target, status, err, current_target,
                       current_group, idle>>

Variable ==
    \E line \in Lines :
        /\ Reads(line, "variable")
        /\ LET parts == SplitOnce(Strip(line), "=")
           IN variables' = SetVariable(variables, Strip(parts[1]), Strip(parts[2]))
        /\ current_target' = None
        /\ pending_doc' = <<>>
        /\ log' = Append(log, Parsed("variable", None))
        /\ UNCHANGED <<targets, first_target, status, err, current_group, idle>>

TargetDef ==
    \E line \in Lines :
        /\ Reads(line, "target")
        /\ LET target_name == TargetName(line)
               doc_string == IF pending_doc # <<>> THEN Join(pending_doc) ELSE <<>>
               entry == [deps |-> Dependencies(line), commands |-> <<>>,
                         doc |-> doc_string, group |-> current_group]
           IN /\ targets' = SetTarget(targets, target_name, entry)
              /\ first_target' = IF first_target = None THEN target_name
                                 ELSE first_target
              /\ current_target' = target_name
              /\ log' = Append(log, ParsedTarget(target_name, entry))
        /\ pending_doc' = <<>>
        /\ UNCHANGED <<variables, status, err, current_group, idle>>

SyntaxError ==
    \E line \in Lines :
        /\ Reads(line, "syntax")
        /\ ParseError("SyntaxError")
        /\ log' = Append(log, Parsed("raise", None))
        /\ UNCHANGED <<model, current_target, current_group, pending_doc, idle>>

\* the file has no further line
EndOfFile ==
    /\ status = "parse"
    /\ status' = "parsed"
    /\ UNCHANGED <<model, err, log, parsing, idle>>

NextParse ==
    \/ GroupHeader \/ BlankLine \/ Comment \/ OrphanCommand \/ Command
    \/ Variable \/ TargetDef \/ SyntaxError \/ EndOfFile

SpecParse == InitParse /\ [][NextParse]_vars

----------------------------------------------------------------------------
(* Vocabulary of the properties *)

\* the direct dependencies of a name (none for a plain file)
DepsOf(n) == IF n \in DOMAIN targets THEN Range(targets[n].deps) ELSE {}

RECURSIVE Closure(_, _)
Closure(S, k) ==
    IF k = 0 THEN S ELSE Closure(S \cup UNION {DepsOf(m) : m \in S}, k - 1)

\* the names reachable from n by one or more dependency edges
Below(n) == Closure(DepsOf(n), Cardinality(DOMAIN fs))

OnCycle(n) == n \in Below(n)
ReachesCycle(n) == OnCycle(n) \/ \E m \in Below(n) : OnCycle(m)
Acyclic == \A n \in DOMAIN fs : ~OnCycle(n)

\* the events of the current top-level invocation: from its "goal" event on
GoalIndex ==
    IF \E k \in 1..Len(log) : log[k].ev = "goal"
    THEN CHOOSE k \in 1..Len(log) :
            /\ log[k].ev = "goal"
            /\ \A j \in (k + 1)..Len(log) : log[j].ev # "goal"
    ELSE 1
Invocation == SubSeq(log, GoalIndex, Len(log))
Goal == Invocation[1].name

\* a top-level invocation has begun and has ended (returned or raised)
InvocationOver == log # <<>> /\ stack = <<>>

\* the positions of the invocation at which a command was executed
Executed == {k \in 1..Len(Invocation) : Invocation[k].ev = "cmd"}

\* the staleness test as the specification words it, in the filesystem f
FileNewer(f, d, t) == f[d] > 0 /\ f[d] > f[t]
Unknown(f, d) == f[d] = 0 /\ d \notin DOMAIN targets
StaleWith(f, t, D) ==
    \/ f[t] = 0
    \/ \E d \in D : FileNewer(f, d, t)
    \/ \E d \in D : Unknown(f, d)
StaleBySpec(f, t) == StaleWith(f, t, DepsOf(t))

\* the number of dependency paths from g to n in an acyclic graph, the
\* repeated entries of a dependency list counted separately
RECURSIVE Paths(_, _), PathsVia(_, _, _)
Paths(g, n) ==
    IF g = n THEN 1
    ELSE IF g \notin DOMAIN targets THEN 0
    ELSE PathsVia(targets[g].deps, n, 1)
PathsVia(deps, n, k) ==
    IF k > Len(deps) THEN 0 ELSE Paths(deps[k], n) + PathsVia(deps, n, k + 1)

\* how often command i of target n was executed in the invocation
Runs(n, i) ==
    Cardinality({k \in Executed : Invocation[k].name = n /\ Invocation[k].idx = i})

----------------------------------------------------------------------------
(* C1 *)

\* C1 as claimed: when the requested target lies on or reaches a dependency
\* cycle, the invocation fails with CircularDependency and executes no command
\* of any target.
C1_Original ==
    (InvocationOver /\ ReachesCycle(Goal)) =>
        (err.kind = "CircularDependency" /\ Executed = {})

\* C1 amended: when the requested target lies on or reaches a dependency cycle,
\* the invocation never succeeds: it fails with CircularDependency, or with the
\* NoRuleToMake or CommandFailed of a dependency visited before the cycle is
\* closed; and no command of a target that lies on or reaches a cycle is ever
\* executed.
C1_CycleFails ==
    /\ (InvocationOver /\ ReachesCycle(Goal)) =>
          /\ status = "exit1"
          /\ err.kind \in {"CircularDependency", "NoRuleToMake", "CommandFailed"}
          /\ (err.kind = "CircularDependency" => OnCycle(err.name))
          /\ (err.kind # "CircularDependency" =>
                \E k \in 1..Len(Invocation) :
                    /\ Invocation[k].ev \in {"cmd", "enter"}
                    /\ ~ReachesCycle(Invocation[k].name))
    /\ \A k \in 1..Len(log) : log[k].ev = "cmd" => ~ReachesCycle(log[k].name)

\* a: b, b: a was built and failed on the cycle without running a command
C1_Witness ==
    /\ InvocationOver /\ ReachesCycle(Goal)
    /\ err.kind = "CircularDependency"
    /\ Executed = {}
    /\ \E k \in 1..Len(Invocation) :
          Invocation[k].ev = "enter" /\ Invocation[k].name # Goal

----------------------------------------------------------------------------
(* C2 *)

\* C2 as claimed: in an acyclic graph one invocation executes each command of
\* each target at most once, however often the target is reached.
C2_Original ==
    Acyclic =>
        \A n \in DOMAIN targets : \A i \in 1..Len(targets[n].commands) :
            Runs(n, i) <= 1

\* C2 amended: in an acyclic graph one invocation executes each command of a
\* target at most once per dependency path from the requested target to that
\* target (repeated entries of a dependency list counted separately); a target
\* reached by several paths can be executed once per path.
C2_OncePerPath ==
    (Acyclic /\ log # <<>>) =>
        \A n \in DOMAIN targets : \A i \in 1..Len(targets[n].commands) :
            Runs(n, i) <= Paths(Goal, n)

\* the shared dependency of a diamond was executed on both of its paths
C2_Witness ==
    /\ Acyclic /\ InvocationOver /\ err.kind = "None"
    /\ \E n \in DOMAIN targets :
          /\ Paths(Goal, n) = 2
          /\ Runs(n, 1) = 2
          /\ Cardinality(DepsOf(Goal)) = 2

----------------------------------------------------------------------------
(* C3 *)

\* the targets among the requested target and its transitive dependencies
TargetsBelowGoal == ({Goal} \cup Below(Goal)) \cap DOMAIN targets

\* C3 as claimed: when the requested target is up to date as the invocation
\* begins, the invocation executes no command at all and leaves the
\* filesystem as it was.
C3_Original ==
    (InvocationOver /\ Goal \in DOMAIN targets /\ ~StaleBySpec(start, Goal)) =>
        (Executed = {} /\ fs = start)

\* C3 amended: when the requested target and every target among its
\* transitive dependencies are up to date as the invocation begins, the
\* invocation executes no command at all and leaves the filesystem as it was.
C3_SatisfiedBuildIsIdle ==
    (log # <<>> /\ Goal \in DOMAIN targets
       /\ \A t \in TargetsBelowGoal : ~StaleBySpec(start, t)) =>
        (Executed = {} /\ fs = start)

\* an up-to-date target over up-to-date targets and an equally old file was
\* built and nothing ran
C3_Witness ==
    /\ InvocationOver /\ err.kind = "None"
    /\ Goal \in DOMAIN targets
    /\ \A t \in TargetsBelowGoal : ~StaleBySpec(start, t)
    /\ \E d \in DepsOf(Goal) : d \in DOMAIN targets /\ start[d] = start[Goal]
    /\ Executed = {} /\ fs = start

----------------------------------------------------------------------------
(* C4 *)

\* the position of the "enter" event of the call that the event at k belongs to
OwnEnter(k) ==
    CHOOSE e \in 1..k :
        /\ log[e].ev = "enter" /\ log[e].depth = log[k].depth
        /\ \A j \in (e + 1)..k : ~(log[j].ev = "enter" /\ log[j].depth = log[k].depth)

\* the calls made directly by the call entered at e, up to position k: the
\* "enter" and "return" events one level deeper, in the order of the log
ChildCalls(e, k) ==
    LET Direct(x) == x.depth = log[e].depth + 1 /\ x.ev \in {"enter", "return"}
        sel == SelectSeq(SubSeq(log, e + 1, k), Direct)
    IN [j \in 1..Len(sel) |-> <<sel[j].ev, sel[j].name>>]

\* every dependency of deps entered and returned, one after the other
BuiltInOrder(deps) ==
    [j \in 1..(2 * Len(deps)) |->
        IF j % 2 = 1 THEN <<"enter", deps[(j + 1) \div 2]>>
                     ELSE <<"return", deps[j \div 2]>>]

\* C4: within one invocation, (1) when the staleness check of a target runs,
\* every dependency of the target has been entered and has returned, one
\* after the other in the listed order; (2) a dependency is entered only
\* after the dependencies listed before it have returned, in the listed
\* order, and before the staleness check; (3) command i of a target runs
\* directly after the check that found the target stale (i = 1) or directly
\* after command i - 1 of the same call has exited with status 0.
C4_Ordering ==
    \A k \in 1..Len(log) :
        /\ log[k].ev = "check" =>
              ChildCalls(OwnEnter(k), k) = BuiltInOrder(targets[log[k].name].deps)
        /\ (log[k].ev = "enter" /\ log[k].depth > 1) =>
              LET e == OwnEnter(CHOOSE j \in 1..k :
                          /\ log[j].depth = log[k].depth - 1
                          /\ \A h \in (j + 1)..k : log[h].depth >= log[k].depth)
                  deps == targets[log[e].name].deps
                  c == ChildCalls(e, k - 1)
                  n == Len(c) \div 2
              IN /\ n < Len(deps)
                 /\ c = BuiltInOrder(SubSeq(deps, 1, n))
                 /\ log[k].name = deps[n + 1]
                 /\ \A j \in e..k : ~(log[j].ev = "check" /\ log[j].depth = log[e].depth)
        /\ log[k].ev = "cmd" =>
              /\ k > 1
              /\ log[k].idx \in 1..Len(targets[log[k].name].commands)
              /\ log[k - 1].name = log[k].name /\ log[k - 1].depth = log[k].depth
              /\ IF log[k].idx = 1
                 THEN log[k - 1].ev = "check" /\ log[k - 1].status = 1
                 ELSE /\ log[k - 1].ev = "cmd" /\ log[k - 1].status = 0
                      /\ log[k - 1].idx = log[k].idx - 1

\* a target with two dependencies was checked after both were built, and its
\* second command ran
C4_Witness ==
    /\ InvocationOver
    /\ \E k \in 1..Len(log) :
          /\ log[k].ev = "check" /\ Len(targets[log[k].name].deps) = 2
          /\ \E d \in DepsOf(log[k].name) : d \in DOMAIN targets
    /\ \E k \in 1..Len(log) : log[k].ev = "cmd" /\ log[k].idx = 2

----------------------------------------------------------------------------
(* C5 *)

\* C5: needs_rebuild(target, deps) is true exactly when the target's file does
\* not exist, or some dependency is an existing file strictly newer than the
\* target's, or some dependency is neither an existing file nor a known
\* target; a dependency as old as the target and a known target without a
\* file do not make it true.  (Stated for every filesystem the run starts in
\* or a command leaves behind: the filesystem changes at no other step.)
C5_NeedsRebuild ==
    (log = <<>> \/ log[Len(log)].ev = "cmd") =>
        \A t \in DOMAIN fs : \A deps \in SeqsUpTo(DOMAIN fs, MaxDeps) :
            needs_rebuild(t, deps) = StaleWith(fs, t, Range(deps))

\* build found one target up to date beside a known target without a file
\* and one beside a dependency exactly as old as itself
C5_Witness ==
    /\ InvocationOver /\ fs = start
    /\ \E k \in 1..Len(log) :
          /\ log[k].ev = "check" /\ log[k].status = 0
          /\ \E d \in DepsOf(log[k].name) : d \in DOMAIN targets /\ fs[d] = 0
    /\ \E k \in 1..Len(log) :
          /\ log[k].ev = "check" /\ log[k].status = 0
          /\ \E d \in DepsOf(log[k].name) : fs[d] = fs[log[k].name]

----------------------------------------------------------------------------
(* C6 *)

\* C6: when a command exits with a non-zero status, the invocation has ended
\* with CommandFailed carrying the expanded text of that command (the text
\* handed to the shell), and the failing command is the last thing the
\* invocation does: no call is active any more and no command follows it.
C6_CommandFailed ==
    \A k \in 1..Len(log) :
        (log[k].ev = "cmd" /\ log[k].status # 0) =>
            /\ k = Len(log)
            /\ stack = <<>> /\ status = "exit1"
            /\ err.kind = "CommandFailed"
            /\ err.text = log[k].text
            /\ err.text = ExpandVars(targets[log[k].name].commands[log[k].idx])

\* the second of three commands of a dependency failed, below a target that
\* has commands and a later dependency; its text had a variable to expand
C6_Witness ==
    /\ InvocationOver /\ err.kind = "CommandFailed"
    /\ LET last == log[Len(log)]
       IN /\ last.ev = "cmd" /\ last.status # 0
          /\ last.idx = 2 /\ last.depth = 2
          /\ Len(targets[last.name].commands) = 3
          /\ last.text # targets[last.name].commands[last.idx]
          /\ targets[Goal].deps[1] = last.name
          /\ Len(targets[Goal].deps) = 2

----------------------------------------------------------------------------
(* C7 *)

\* C7: a call of build for a name that is not a known target takes one step
\* that executes no command, leaves the filesystem alone and makes no further
\* call: it returns to its caller if the file exists at that moment, and ends
\* the invocation with NoRuleToMake for that name otherwise.
C7_PlainName ==
    [][ (Building /\ Top.pc = "enter" /\ Top.name \notin DOMAIN targets) =>
          /\ fs' = fs
          /\ \A k \in (Len(log) + 1)..Len(log') : log'[k].ev \notin {"cmd", "enter"}
          /\ IF fs[Top.name] > 0
             THEN /\ Len(stack') = Len(stack) - 1
                  /\ err' = NoError /\ status' = "loop"
                  /\ log'[Len(log')].ev = "return"
             ELSE /\ stack' = <<>> /\ status' = "exit1"
                  /\ err' = [kind |-> "NoRuleToMake", name |-> Top.name, text |-> <<>>]
       ]_vars

\* a plain file that exists was built as a dependency, and build returned
C7_Witness ==
    /\ InvocationOver /\ err.kind = "None"
    /\ \E k \in 1..(Len(log) - 1) :
          /\ log[k].ev = "enter" /\ log[k].name \notin DOMAIN targets
          /\ log[k].depth = 2
          /\ log[k + 1].ev = "return" /\ log[k + 1].name = log[k].name

----------------------------------------------------------------------------
(* C8 *)

----------------------------------------------------------------------------
(* C9 *)

\* the names of the calls below position k of the active path
Ancestors(k) == {stack[j].name : j \in 1..(k - 1)}

\* how often build was entered for n in the invocation
Entered(n) ==
    Cardinality({k \in 1..Len(Invocation) :
                    Invocation[k].ev = "enter" /\ Invocation[k].name = n})

\* C9: the visited set of every active call is the set of the names of its
\* ancestors on the active path, as it was passed in, plus its own name once
\* the cycle check is passed; no name is twice on the active path beyond that
\* check; CircularDependency is raised only for a name that lies on a cycle,
\* so never in an acyclic graph.
C9_VisitedIsPath ==
    /\ \A k \in 1..Len(stack) :
          /\ stack[k].visited =
                Ancestors(k) \cup (IF stack[k].pc = "enter" THEN {} ELSE {stack[k].name})
          /\ stack[k].pc # "enter" => stack[k].name \notin Ancestors(k)
    /\ err.kind = "CircularDependency" => OnCycle(err.name)
    /\ Acyclic => err.kind # "CircularDependency"

\* the build of a diamond entered the shared name twice, once under each
\* of two different dependencies, and succeeded
C9_Witness ==
    /\ Acyclic /\ InvocationOver /\ err.kind = "None"
    /\ \E n \in DOMAIN fs :
          /\ Entered(n) = 2 /\ Paths(Goal, n) = 2
          /\ \A d \in DepsOf(Goal) : n \in DepsOf(d)
    /\ Cardinality(DepsOf(Goal)) = 2

----------------------------------------------------------------------------
(* C10 *)

\* the goals run builds, in order
Requested ==
    IF argv # <<>> THEN argv
    ELSE IF first_target # NoName THEN <<first_target>> ELSE <<>>

\* the names of the goals started so far, in order
StartedGoals ==
    LET IsGoal(x) == x.ev = "goal"
        sel == SelectSeq(log, IsGoal)
    IN [j \in 1..Len(sel) |-> sel[j].name]

IsFailure(x) == x.ev = "raise" \/ (x.ev = "cmd" /\ x.status # 0)

\* C10: the goals are started in the order given, each with an empty visited
\* set and only after the goal before it has returned; a failure of a build
\* is the last event of the run: no goal is started and no command is
\* executed after it, and the run ends with exit status 1; the run ends with
\* exit status 0 only when every goal was built without an error.
C10_GoalsInOrder ==
    /\ status # "init" =>
          /\ Len(StartedGoals) + Len(queue) = Len(Requested)
          /\ StartedGoals = SubSeq(Requested, 1, Len(StartedGoals))
          /\ queue = SubSeq(Requested, Len(StartedGoals) + 1, Len(Requested))
    /\ \A k \in 2..Len(log) :
          log[k].ev = "goal" => (log[k - 1].ev = "return" /\ log[k - 1].depth = 1)
    /\ (stack # <<>> /\ stack[1].pc = "enter") => stack[1].visited = {}
    /\ \A k \in 1..Len(log) :
          IsFailure(log[k]) => (k = Len(log) /\ status = "exit1" /\ stack = <<>>)
    /\ (err.kind # "None") = (status = "exit1")
    /\ status = "exit1" => IsFailure(log[Len(log)])
    /\ status = "exit0" => (queue = <<>> /\ StartedGoals = Requested)

\* the first of two goals ran a command and then failed; the second was
\* never started
C10_Witness ==
    /\ status = "exit1" /\ Len(argv) = 2
    /\ queue = <<argv[2]>>
    /\ StartedGoals = <<argv[1]>>
    /\ \E k \in 1..Len(log) : log[k].ev = "cmd" /\ log[k].status = 0

----------------------------------------------------------------------------
(* C11 *)

\* the pattern of variable kv that s begins with, <<>> if it begins with none
PatternAt(s, kv) ==
    IF StartsWith(s, DollarName(kv.key)) THEN DollarName(kv.key)
    ELSE IF StartsWith(s, DollarBrace(kv.key)) THEN DollarBrace(kv.key)
    ELSE <<>>

\* one scan of the text from left to right: where a pattern of a variable
\* begins (of the first such variable of the table), the value stands for it
\* and the scan goes on behind the pattern; what was inserted is not scanned
RECURSIVE SinglePass(_, _)
SinglePass(s, table) ==
    IF s = <<>> THEN <<>>
    ELSE LET hits == {k \in 1..Len(table) : PatternAt(s, table[k]) # <<>>}
         IN IF hits = {} THEN <<s[1]>> \o SinglePass(Tail(s), table)
            ELSE LET k == CHOOSE h \in hits : \A g \in hits : h <= g
                     pat == PatternAt(s, table[k])
                 IN table[k].val \o
                    SinglePass(SubSeq(s, Len(pat) + 1, Len(s)), table)

\* C11 as claimed: expand_vars is a single pass, text inserted as the value
\* of a variable is never scanned for further substitution, whatever the
\* order of the variables in the table (A=$B, B=x: "$A" gives "$B").
C11_SinglePass ==
    status = "expanded" => expanded = SinglePass(input, variables)

----------------------------------------------------------------------------
(* C12 *)

NameChars == {"A", "B", "x"}

\* the length of the longest run of name characters that s begins with
RECURSIVE NameLen(_)
NameLen(s) ==
    IF s # <<>> /\ s[1] \in NameChars THEN 1 + NameLen(Tail(s)) ELSE 0

Defined(table, name) == \E k \in 1..Len(table) : table[k].key = name
ValueOf(table, name) ==
    table[CHOOSE k \in 1..Len(table) : table[k].key = name].val

\* the expansion by tokens: $name with the whole name that follows the
\* dollar, ${name} up to the closing brace; a token whose name is not a
\* defined variable stays as it is
RECURSIVE TokenExpand(_, _)
TokenExpand(s, table) ==
    IF s = <<>> THEN <<>>
    ELSE IF s[1] # "$" THEN <<s[1]>> \o TokenExpand(Tail(s), table)
    ELSE IF Len(s) >= 2 /\ s[2] = "{"
    THEN LET n == NameLen(SubSeq(s, 3, Len(s)))
             name == SubSeq(s, 3, 2 + n)
         IN IF Len(s) >= 3 + n /\ s[3 + n] = "}" /\ Defined(table, name)
            THEN ValueOf(table, name) \o TokenExpand(SubSeq(s, 4 + n, Len(s)), table)
            ELSE <<"$">> \o TokenExpand(Tail(s), table)
    ELSE LET n == NameLen(Tail(s))
             name == SubSeq(s, 2, 1 + n)
         IN IF Defined(table, name)
            THEN ValueOf(table, name) \o TokenExpand(SubSeq(s, 2 + n, Len(s)), table)
            ELSE SubSeq(s, 1, 1 + n) \o TokenExpand(SubSeq(s, 2 + n, Len(s)), table)

\* C12 as claimed: expand_vars replaces every $name and ${name} of a defined
\* variable by its value and leaves every $name whose name is not a defined
\* variable as it is, also when a defined name is a proper prefix of that
\* name.  (Stated for values without a dollar, where nothing inserted could
\* be taken for a reference.)
C12_TokensOnly ==
    (status = "expanded"
       /\ \A k \in 1..Len(variables) : "$" \notin Range(variables[k].val)) =>
        expanded = TokenExpand(input, variables)

----------------------------------------------------------------------------
(* parse: vocabulary of the properties.  Line n of the file is buildfile[n]
   and log[n] tells what the parser did with it. *)

LinesRead == 1..Len(buildfile)

RaisedAt(kind, n) == status = "raised" /\ err = [kind |-> kind, line |-> n]

\* the line has none of the shapes the syntax of build files knows
Shapeless(line) ==
    /\ ~IsBlank(line) /\ ~IsGroupHeader(line) /\ ~IsComment(line)
    /\ ~IsIndented(line)
    /\ ~Has(line, "=") /\ ~Has(line, ":")

\* parse fails with SyntaxError at line n exactly when n is the first failing
\* line and is shapeless
SyntaxErrorExactly ==
    /\ status = "raised" => err.line = Len(buildfile)
    /\ \A n \in LinesRead : RaisedAt("SyntaxError", n) <=> Shapeless(buildfile[n])

----------------------------------------------------------------------------
(* C13 *)

\* C13 as claimed: SyntaxError at line n exactly when n is the first failing
\* line and is non-blank, no group header, no comment, not indented and holds
\* neither '=' nor ':'; every unindented line that holds ':' is taken as a
\* target definition, every unindented line that holds '=' and no ':' as a
\* variable assignment.
C13_Original ==
    /\ SyntaxErrorExactly
    /\ \A n \in LinesRead :
        LET line == buildfile[n]
        IN /\ (~IsIndented(line) /\ Has(line, ":")) => log[n].ev = "target"
           /\ (~IsIndented(line) /\ Has(line, "=") /\ ~Has(line, ":")) =>
                  log[n].ev = "variable"

\* C13, amended: the same, with the lines taken as target definitions and
\* variable assignments being the unindented lines that are not blank, no
\* group header and no comment.
C13_SyntaxError ==
    /\ SyntaxErrorExactly
    /\ \A n \in LinesRead :
        LET line == buildfile[n]
            plain == ~IsIndented(line) /\ ~IsBlank(line)
                     /\ ~IsGroupHeader(line) /\ ~IsComment(line)
        IN /\ (plain /\ Has(line, ":")) => log[n].ev = "target"
           /\ (plain /\ Has(line, "=") /\ ~Has(line, ":")) =>
                  log[n].ev = "variable"

\* a line with '=' and ':' was taken as a target definition, another as a
\* variable assignment, and a later line raised SyntaxError
C13_Witness ==
    /\ RaisedAt("SyntaxError", Len(buildfile))
    /\ \E n \in LinesRead : log[n].ev = "target" /\ Has(buildfile[n], "=")
    /\ \E n \in LinesRead : log[n].ev = "variable"

----------------------------------------------------------------------------
(* parse: the open target, read off the lines *)

IsCommandLine(line) == BranchOf[line] = "command"

DefinitionLines == {n \in LinesRead : BranchOf[buildfile[n]] = "target"}

DefinitionsOf(t) == {n \in DefinitionLines : TargetName(buildfile[n]) = t}

LastDefinition(t) == CHOOSE n \in DefinitionsOf(t) : \A m \in DefinitionsOf(t) : m <= n

\* the target open behind line n: the one of the last target definition, if
\* no group header and no variable assignment came after it; None otherwise.
\* Blank lines, comments and commands leave it as it is.
RECURSIVE OpenBehind(_)
OpenBehind(n) ==
    IF n = 0 THEN None
    ELSE LET branch == BranchOf[buildfile[n]]
         IN IF branch = "target" THEN TargetName(buildfile[n])
            ELSE IF branch \in {"group", "variable"} THEN None
            ELSE OpenBehind(n - 1)

\* the target open at line n, when line n is read
OpenAt(n) == OpenBehind(n - 1)

\* the line of the target definition that opened what is open at line n
RECURSIVE OpenedBy(_)
OpenedBy(n) ==
    IF n = 0 THEN 0
    ELSE IF BranchOf[buildfile[n]] = "target" THEN n
    ELSE IF BranchOf[buildfile[n]] \in {"group", "variable"} THEN 0
    ELSE OpenedBy(n - 1)

\* the commands of the block of the target definition of line d, in file order
BlockOf(d) ==
    LET InBlock(n) == IsCommandLine(buildfile[n]) /\ OpenedBy(n - 1) = d
        at == SelectSeq([n \in LinesRead |-> n], InBlock)
    IN [j \in 1..Len(at) |-> Strip(buildfile[at[j]])]

----------------------------------------------------------------------------
(* C14 *)

\* C14 as claimed: an indented line that is no blank line, comment or group
\* header raises OrphanCommand with its line number exactly when no target is
\* open at it: no target definition came before it, or a group header or a
\* variable assignment came after the last one; blank lines and comments do
\* not close the open target.
C14_OrphanCommand ==
    \A n \in LinesRead :
        IsCommandLine(buildfile[n]) =>
            (RaisedAt("OrphanCommand", n) <=> OpenAt(n) = None)

----------------------------------------------------------------------------
(* C15 *)

FirstDefinition == CHOOSE n \in DefinitionLines : \A m \in DefinitionLines : n <= m

\* C15: after a successful parse the table has one entry for each name
\* defined, with the dependencies, doc and group of the last definition of
\* the name and the commands read after that definition only; the first
\* target is the name of the first target definition of the file at all
\* times, and a key of the table.
C15_LastDefinition ==
    /\ status = "parsed" =>
        /\ DOMAIN targets = {TargetName(buildfile[n]) : n \in DefinitionLines}
        /\ \A t \in DOMAIN targets :
            LET d == LastDefinition(t)
            IN /\ targets[t].deps = Dependencies(buildfile[d])
               /\ targets[t].doc = log[d].entry.doc
               /\ targets[t].group = log[d].entry.group
               /\ targets[t].commands = BlockOf(d)
    /\ first_target =
          IF DefinitionLines = {} THEN None ELSE TargetName(buildfile[FirstDefinition])
    /\ first_target # None => first_target \in DOMAIN targets

\* a name was defined twice with different dependencies, docs and groups,
\* with a command behind either definition, and is not the first target
C15_Witness ==
    /\ status = "parsed"
    /\ \E t \in DOMAIN targets :
        \E d \in DefinitionsOf(t) :
            /\ d < LastDefinition(t)
            /\ BlockOf(d) # <<>>
            /\ BlockOf(LastDefinition(t)) # <<>>
            /\ BlockOf(d) # BlockOf(LastDefinition(t))
            /\ log[d].entry.deps # targets[t].deps

----------------------------------------------------------------------------
(* C16 *)

\* C16 as claimed: every target definition, the one of the empty name
\* included, opens its target: each command line behind it, up to the next
\* group header, variable assignment or target definition, is appended in
\* file order to the commands of that target and of no other.
C16_DefinitionOpens ==
    /\ \A n \in LinesRead :
        (IsCommandLine(buildfile[n]) /\ OpenAt(n) # None) =>
            /\ ~(status = "raised" /\ err.line = n)
            /\ log[n] = Parsed("command", OpenAt(n))
    /\ status # "raised" =>
        \A t \in DOMAIN targets : targets[t].commands = BlockOf(LastDefinition(t))

----------------------------------------------------------------------------
(* C17 *)

\* the text of a comment line
CommentText(line) == Strip(Tail(Strip(line)))

\* the comment lines before line n that were read with no target open and
\* with no blank line, group header, variable assignment, command or target
\* definition between them and line n
DocLines(n) ==
    LET Counts(m) ==
            /\ m < n
            /\ BranchOf[buildfile[m]] = "comment"
            /\ OpenAt(m) = None
            /\ \A j \in (m + 1)..(n - 1) : BranchOf[buildfile[j]] = "comment"
        at == SelectSeq([m \in LinesRead |-> m], Counts)
    IN [j \in 1..Len(at) |-> CommentText(buildfile[at[j]])]

\* C17 as claimed: the doc of a target is the join with single spaces of the
\* comment lines read, with no target open, since the last blank line, group
\* header, variable assignment, command or target definition before its
\* definition; a comment read while a target is open is part of no doc, and
\* the pending doc is empty wherever a target is open.
C17_Doc ==
    /\ \A n \in DefinitionLines : log[n].entry.doc = Join(DocLines(n))
    /\ (status = "parse" /\ OpenBehind(Len(buildfile)) # None) => pending_doc = <<>>

----------------------------------------------------------------------------
(* C18 *)

\* the positions of the invocation at which the staleness of n was evaluated
Checks(n) ==
    {k \in 1..Len(Invocation) : Invocation[k].ev = "check" /\ Invocation[k].name = n}

\* the staleness test that was the last thing to happen, if one was:
\* the step of a test leaves the filesystem as the test saw it
LastCheck ==
    IF log # <<>> /\ log[Len(log)].ev = "check" THEN Len(log)
    ELSE IF Len(log) >= 2 /\ log[Len(log)].ev = "return"
              /\ log[Len(log) - 1].ev = "check"
              /\ log[Len(log) - 1].depth = log[Len(log)].depth
    THEN Len(log) - 1
    ELSE 0

\* C18: in an acyclic graph an invocation enters build(n) once for each
\* dependency path from the requested target to n, repeated entries of a
\* dependency list counted separately (never more often, and as often when
\* the invocation runs to its end without an error); on each entry of a
\* target its staleness is evaluated once, in the filesystem of that moment;
\* so a target on two paths can have its commands executed twice.
C18_EnteredPerPath ==
    /\ (Acyclic /\ log # <<>>) =>
        \A n \in DOMAIN fs :
            /\ Entered(n) <= Paths(Goal, n)
            /\ (InvocationOver /\ err.kind = "None") => Entered(n) = Paths(Goal, n)
            /\ n \in DOMAIN targets =>
                /\ Cardinality(Checks(n)) <= Entered(n)
                /\ (InvocationOver /\ err.kind = "None") =>
                       Cardinality(Checks(n)) = Entered(n)
    /\ LastCheck # 0 =>
        (log[LastCheck].status = 1 <=> StaleBySpec(fs, log[LastCheck].name))

\* the shared target of a diamond was entered on both paths, found stale both
\* times although its commands had run between the two, and executed twice
C18_Witness ==
    /\ Acyclic /\ InvocationOver /\ err.kind = "None"
    /\ \E n \in DOMAIN targets :
          /\ n # Goal /\ Paths(Goal, n) = 2 /\ Entered(n) = 2
          /\ \A k \in Checks(n) : Invocation[k].status = 1
          /\ \A i \in 1..Len(targets[n].commands) : Runs(n, i) = 2
          /\ targets[n].commands # <<>>
          /\ \E j, k \in Checks(n) : \E c \in Executed :
                j < c /\ c < k /\ Invocation[c].name = n

----------------------------------------------------------------------------
(* C19 *)

\* C19: no step of a build invocation, of one that succeeds or of one that
\* fails, changes the variable table, the target table (names, dependencies,
\* commands, doc, group) or the first target.
C19_ModelUnchanged == [][model' = model]_vars

\* an invocation has run a command whose expansion differs from its text and
\* has then failed on another command
C19_Witness ==
    /\ InvocationOver /\ err.kind = "CommandFailed"
    /\ \E k \in Executed :
          /\ Invocation[k].status = 0
          /\ Invocation[k].text #
                targets[Invocation[k].name].commands[Invocation[k].idx]
    /\ variables # <<>>

----------------------------------------------------------------------------
(* C20 *)

\* the number of distinct names of the graph
GraphSize == Cardinality(DOMAIN fs)

\* C20: whatever the graph, with cycles or without, every build invocation
\* comes to an end, with success or with CircularDependency, NoRuleToMake or
\* CommandFailed, and at no time are more calls of build active than there
\* are names in the graph, plus one.
C20_Terminates ==
    /\ [](Len(stack) <= GraphSize + 1)
    /\ [](InvocationOver =>
            /\ err.kind \in {"None", "CircularDependency", "NoRuleToMake",
                             "CommandFailed"}
            /\ (err.kind # "None" <=> status = "exit1"))
    /\ (stack # <<>>) ~> (stack = <<>>)
    /\ <>(status \in {"exit0", "exit1"})

\* on a cycle through every name of the graph the calls are one more than
\* the names, at the call that meets the cycle
C20_Witness ==
    /\ GraphSize >= 2
    /\ Len(stack) = GraphSize + 1
    /\ Top.name \in Top.visited
    /\ \A n \in DOMAIN fs : OnCycle(n)

====
